---- MODULE Spec2Model ----
(***************************************************************************)
(* A model of the screenplay rewriting pipeline of                         *)
(* src/services/rewrite_to_fountain.py (parse_fdx_to_canonical,            *)
(* assign_acts, scene_needs_rewrite, rewrite_scene_with_gemini,            *)
(* diff_scene, screenplay_to_fountain, rewrite_fdx_with_plan) and of the   *)
(* change-plan cleaning of src/services/notes_to_json.py.                  *)
(*                                                                         *)
(* Python values are modelled as follows: str as TLA+ strings (sequences   *)
(* of characters), list as sequences, dict as records, an Optional[int]    *)
(* as <<>> (None) or <<k>>, 0-based list indices as 1-based positions.     *)
(***************************************************************************)
EXTENDS Integers, Sequences, FiniteSets, TLC

VARIABLES
    pc,            \* position of the run: "start", "gather", "done", ...
    doc,           \* the FDX document: sequence of <Paragraph> [Type, Text]
    change_plan,   \* change_plan["scene_level_changes"]: sequence of changes
    start_scene,   \* Optional[int]: <<>> or <<k>>
    end_scene,     \* Optional[int]: <<>> or <<k>>
    canonical,     \* canonical["scenes"]
    updated,       \* updated["scenes"]
    tasks,         \* the list `tasks`: scene positions, in creation order
    results,       \* per task: Pending, an exception or the returned scene
    diff_report,   \* diff_report["scenes_changed"]
    fountain_text, \* the lines of the returned fountain_text
    raw_plan,      \* json.loads(response.text) in notes_docx_to_change_plan
    acts_rerun,    \* the acts a second assign_acts gives the parsed scenes
    overtaken,     \* history: some task settled before an earlier one did
    payloads,      \* history: per task, the json.loads(response.text) it got
    inflight,      \* places of the tasks whose generate_content call runs
    hung           \* places of the tasks whose call never gets a response

vars == <<pc, doc, change_plan, start_scene, end_scene, canonical, updated,
          tasks, results, diff_report, fountain_text, raw_plan, acts_rerun,
          overtaken, payloads, inflight, hung>>

-----------------------------------------------------------------------------
(* Bounds of the model                                                     *)

MaxParas == 5

MaxScenes == 4

MaxElems == 1

-----------------------------------------------------------------------------
(* Python str methods: strip, upper, lower, the `in` substring test        *)

Whitespace == {" ", "\t", "\n"}

RECURSIVE LStrip(_)
LStrip(s) ==
    IF Len(s) > 0 /\ SubSeq(s, 1, 1) \in Whitespace
    THEN LStrip(SubSeq(s, 2, Len(s)))
    ELSE s

RECURSIVE RStrip(_)
RStrip(s) ==
    IF Len(s) > 0 /\ SubSeq(s, Len(s), Len(s)) \in Whitespace
    THEN RStrip(SubSeq(s, 1, Len(s) - 1))
    ELSE s

Strip(s) == RStrip(LStrip(s))

LowerAlpha == "abcdefghijklmnopqrstuvwxyz"

UpperAlpha == "ABCDEFGHIJKLMNOPQRSTUVWXYZ"

\* the characters of a string, as a set of one-character strings
CharsOf(s) == { SubSeq(s, i, i) : i \in 1..Len(s) }

\* the map taking each character of `from` to the one at its place in `to`
CharMap(from, to) ==
    [c \in CharsOf(from) |->
        LET i == CHOOSE j \in 1..Len(from) : SubSeq(from, j, j) = c
        IN  SubSeq(to, i, i)]

ToUpper == CharMap(LowerAlpha, UpperAlpha)

ToLower == CharMap(UpperAlpha, LowerAlpha)

\* s with every character in the domain of f replaced by its image
RECURSIVE MapStr(_, _)
MapStr(s, f) ==
    IF Len(s) = 0 THEN ""
    ELSE LET c == SubSeq(s, 1, 1)
         IN  (IF c \in DOMAIN f THEN f[c] ELSE c)
                \o MapStr(SubSeq(s, 2, Len(s)), f)

Upper(s) == MapStr(s, ToUpper)

Lower(s) == MapStr(s, ToLower)

\* Python `sub in s` on two strings
Contains(sub, s) ==
    \E i \in 1..(Len(s) - Len(sub) + 1) : SubSeq(s, i, i + Len(sub) - 1) = sub

-----------------------------------------------------------------------------
(* FDX -> canonical JSON                                                   *)

\* f"S{scene_counter:03}"
SceneId(n) ==
    IF n < 10 THEN "S00" \o ToString(n)
    ELSE IF n < 100 THEN "S0" \o ToString(n)
    ELSE "S" \o ToString(n)

\* One iteration of the loop over root.iter("Paragraph"): st is
\* [scenes, current_scene (<<>> for None, else <<scene>>), scene_counter].
ParseStep(st, para) ==
    LET p_type == Strip(para.Type)
        text   == Strip(para.Text)
    IN  IF text = "" THEN st
        ELSE IF p_type = "Scene Heading"
        THEN [scenes |-> st.scenes \o st.current_scene,
              current_scene |->
                  << [scene_id |-> SceneId(st.scene_counter),
                      heading  |-> text,
                      elements |-> << >>] >>,
              scene_counter |-> st.scene_counter + 1]
        ELSE IF st.current_scene # << >>
        THEN [st EXCEPT !.current_scene[1].elements =
                            Append(@, [type |-> p_type, text |-> text])]
        ELSE st

RECURSIVE ParseLoop(_, _)
ParseLoop(st, paras) ==
    IF paras = << >> THEN st
    ELSE ParseLoop(ParseStep(st, Head(paras)), Tail(paras))

\* the parser with the first scene heading taken as a preamble marker and
\* skipped, as fdx_to_fountain_scenes of scene_rewriter.py does
RECURSIVE DropFirstHeading(_)
DropFirstHeading(paras) ==
    IF paras = << >> THEN << >>
    ELSE IF Strip(Head(paras).Type) = "Scene Heading"
            /\ Strip(Head(paras).Text) # ""
    THEN Tail(paras)
    ELSE << Head(paras) >> \o DropFirstHeading(Tail(paras))

parse_first_heading_skipped(d) ==
    LET st == ParseLoop([scenes |-> << >>, current_scene |-> << >>,
                         scene_counter |-> 1], DropFirstHeading(d))
    IN  st.scenes \o st.current_scene

parse_fdx_to_canonical(d) ==
    LET st == ParseLoop([scenes |-> << >>, current_scene |-> << >>,
                         scene_counter |-> 1], d)
    IN  st.scenes \o st.current_scene

-----------------------------------------------------------------------------
(* Act assignment                                                          *)

Max(a, b) == IF a >= b THEN a ELSE b

Min(a, b) == IF a <= b THEN a ELSE b

\* assign_acts with <= for < at the two boundaries
ActOfInclusive(i, total) ==
    IF 100 * i <= 25 * Max(total, 1) THEN "Act I"
    ELSE IF 100 * i <= 75 * Max(total, 1) THEN "Act II"
    ELSE "Act III"

\* ratio = i / max(total, 1), compared with 0.25 and 0.75 (i is 0-based);
\* ratio < 0.25 iff 100*i < 25*max(total, 1), and likewise for 0.75.
ActOf(i, total) ==
    IF 100 * i < 25 * Max(total, 1) THEN "Act I"
    ELSE IF 100 * i < 75 * Max(total, 1) THEN "Act II"
    ELSE "Act III"

assign_acts(scenes) ==
    [k \in 1..Len(scenes) |->
        [scene_id |-> scenes[k].scene_id,
         heading  |-> scenes[k].heading,
         elements |-> scenes[k].elements,
         act      |-> ActOf(k - 1, Len(scenes))]]

-----------------------------------------------------------------------------
(* The parser and the act classifier applied to arbitrary documents        *)

Paragraphs ==
    { [Type |-> "Scene Heading", Text |-> "int. room"],
      [Type |-> " Scene Heading ", Text |-> " ext. street "],
      [Type |-> "Scene Heading", Text |-> " "],
      [Type |-> "Action", Text |-> " he sits. "],
      [Type |-> "Character", Text |-> "bob"],
      [Type |-> "Dialogue", Text |-> ""] }

RECURSIVE SeqsUpTo(_, _)
SeqsUpTo(S, n) ==
    IF n = 0 THEN { << >> }
    ELSE LET shorter == SeqsUpTo(S, n - 1)
         IN  shorter \cup { Append(s, x) : s \in shorter, x \in S }

Idle ==
    /\ change_plan = << >>
    /\ start_scene = << >>
    /\ end_scene = << >>
    /\ updated = << >>
    /\ tasks = << >>
    /\ results = << >>
    /\ diff_report = << >>
    /\ fountain_text = ""
    /\ raw_plan = << >>
    /\ overtaken = FALSE
    /\ payloads = {}
    /\ inflight = {}
    /\ hung = {}

InitParse ==
    /\ pc = "start"
    /\ doc \in SeqsUpTo(Paragraphs, MaxParas)
    /\ canonical = << >>
    /\ acts_rerun = << >>
    /\ Idle

\* canonical = parse_fdx_to_canonical(fdx_path)
Parse ==
    /\ pc = "start"
    /\ pc' = "parsed"
    /\ canonical' = parse_fdx_to_canonical(doc)
    /\ UNCHANGED <<doc, change_plan, start_scene, end_scene, updated, tasks,
                   results, diff_report, fountain_text, raw_plan, acts_rerun, overtaken,
                   payloads, inflight, hung>>

\* assign_acts(canonical)
AssignActs ==
    /\ pc = "parsed"
    /\ pc' = "acts"
    /\ canonical' = assign_acts(canonical)
    /\ UNCHANGED <<doc, change_plan, start_scene, end_scene, updated, tasks,
                   results, diff_report, fountain_text, raw_plan, acts_rerun, overtaken,
                   payloads, inflight, hung>>

\* assign_acts called again on the unchanged scene list
ReassignActs ==
    /\ pc = "acts"
    /\ pc' = "acts2"
    /\ acts_rerun' = [k \in 1..Len(canonical) |-> assign_acts(canonical)[k].act]
    /\ UNCHANGED <<doc, change_plan, start_scene, end_scene, canonical, updated,
                   tasks, results, diff_report, fountain_text, raw_plan, overtaken,
                   payloads, inflight, hung>>

NextParse == Parse \/ AssignActs \/ ReassignActs

SpecParse == InitParse /\ [][NextParse]_vars

-----------------------------------------------------------------------------
(* Scene targeting                                                         *)

\* for change in change_plan.get("scene_level_changes", []):
\*     if scene["act"].upper() in change.get("placement", "").upper(): True
scene_needs_rewrite(scene, plan) ==
    \E c \in 1..Len(plan) :
        Contains(Upper(scene.act), Upper(plan[c].placement))

-----------------------------------------------------------------------------
(* Gemini scene rewrite                                                    *)

\* What the call and json.loads(response.text) give, as a record:
\*   [kind |-> "raise"]             the call or json.loads raises
\*   [kind |-> "list", items |-> s] a JSON list; an item is <<text>> for a
\*                                   string and << >> for any other value
\*   [kind |-> "object", size |-> n] a JSON object with n keys
\*   [kind |-> "scalar"]            a JSON number, boolean or null
Exception == [kind |-> "Exception"]

Pending == [kind |-> "Pending"]

\* new_texts = json.loads(response.text); updated_scene = deepcopy(scene);
\* for i, el in enumerate(updated_scene["elements"]):
\*     if i < len(new_texts) and isinstance(new_texts[i], str): el["text"] = ...
rewrite_scene_with_gemini(scene, payload) ==
    LET n == Len(scene.elements)
    IN  CASE payload.kind = "raise" -> Exception
          [] payload.kind = "scalar" ->
                \* len(new_texts) raises TypeError in the first iteration
                IF n > 0 THEN Exception ELSE scene
          [] payload.kind = "object" ->
                \* new_texts[0] raises KeyError when 0 < len(new_texts)
                IF n > 0 /\ payload.size > 0 THEN Exception ELSE scene
          [] payload.kind = "string" ->
                \* a str has a len, and each new_texts[i] is a str of one
                \* character
                [scene EXCEPT !.elements =
                    [i \in 1..n |->
                        IF i <= Len(payload.text)
                        THEN [@[i] EXCEPT !.text = SubSeq(payload.text, i, i)]
                        ELSE @[i]]]
          [] payload.kind = "list" ->
                [scene EXCEPT !.elements =
                    [i \in 1..n |->
                        IF i <= Len(payload.items) /\ payload.items[i] # << >>
                        THEN [@[i] EXCEPT !.text = payload.items[i][1]]
                        ELSE @[i]]]

-----------------------------------------------------------------------------
(* Diff generation                                                         *)

RECURSIVE DiffFrom(_, _, _)
DiffFrom(original, rewritten, i) ==
    IF i > Min(Len(original.elements), Len(rewritten.elements)) THEN << >>
    ELSE LET o == original.elements[i]
             r == rewritten.elements[i]
         IN  (IF o.text # r.text
              THEN << [element_index |-> i - 1,
                       type   |-> o.type,
                       before |-> o.text,
                       after  |-> r.text] >>
              ELSE << >>) \o DiffFrom(original, rewritten, i + 1)

\* diff_scene comparing from the second element on
diff_scene_from_second(original, rewritten) == DiffFrom(original, rewritten, 2)

\* the unified_diff field, a function of before and after, is left out
diff_scene(original, rewritten) == DiffFrom(original, rewritten, 1)

-----------------------------------------------------------------------------
(* Canonical JSON -> Fountain                                              *)

ElementLines(el) ==
    LET text == Strip(el.text)
    IN  IF text = "" THEN << >>
        ELSE << (CASE el.type = "Character" -> Upper(text)
                   [] el.type = "Parenthetical" -> "(" \o text \o ")"
                   [] OTHER -> text),
                "" >>

RECURSIVE ElementsLines(_)
ElementsLines(els) ==
    IF els = << >> THEN << >>
    ELSE ElementLines(Head(els)) \o ElementsLines(Tail(els))

RECURSIVE ScenesLines(_)
ScenesLines(scenes) ==
    IF scenes = << >> THEN << >>
    ELSE << Upper(Head(scenes).heading), "" >>
            \o ElementsLines(Head(scenes).elements)
            \o << "" >>
            \o ScenesLines(Tail(scenes))

RECURSIVE Join(_)
Join(lines) ==
    IF lines = << >> THEN ""
    ELSE IF Len(lines) = 1 THEN lines[1]
    ELSE lines[1] \o "\n" \o Join(Tail(lines))

\* "\n".join(lines).strip() + "\n"
screenplay_to_fountain(scenes) == Strip(Join(ScenesLines(scenes))) \o "\n"

-----------------------------------------------------------------------------
(* rewrite_fdx_with_plan                                                   *)

\* Python truth of an Optional[int]: neither None nor 0
Truthy(opt) == opt # << >> /\ opt[1] # 0

use_act_filter(s, e) == ~(Truthy(s) /\ Truthy(e))

\* start_idx without the shift from 1-based to 0-based
start_idx_one_based(s, e) ==
    IF Truthy(s) /\ Truthy(e) THEN Max(s[1], 0) ELSE 0

\* start_idx and end_idx (0-based)
start_idx(s, e) == IF Truthy(s) /\ Truthy(e) THEN Max(s[1] - 1, 0) ELSE 0

end_idx(s, e, total_scenes) ==
    IF Truthy(s) /\ Truthy(e) THEN Min(e[1] - 1, total_scenes - 1)
    ELSE total_scenes - 1

\* whether the loop appends a task for the scene at 0-based index i
Selected(scenes, plan, s, e, i) ==
    /\ start_idx(s, e) <= i
    /\ i <= end_idx(s, e, Len(scenes))
    /\ (~use_act_filter(s, e) \/ scene_needs_rewrite(scenes[i + 1], plan))

RECURSIVE SelectFrom(_, _, _, _, _)
SelectFrom(scenes, plan, s, e, i) ==
    IF i >= Len(scenes) THEN << >>
    ELSE (IF Selected(scenes, plan, s, e, i) THEN << i >> ELSE << >>)
            \o SelectFrom(scenes, plan, s, e, i + 1)

\* the 0-based scene indices of the list `tasks`, in creation order
CreateTasks(scenes, plan, s, e) == SelectFrom(scenes, plan, s, e, 0)

\* for (idx, _), result in zip(tasks, results): ... from task k on;
\* st is [updated, scenes_changed]
RECURSIVE MergeFrom(_, _, _, _, _)
MergeFrom(st, canon, tsk, res, k) ==
    IF k > Min(Len(tsk), Len(res)) THEN st
    ELSE IF res[k] = Exception THEN MergeFrom(st, canon, tsk, res, k + 1)
    ELSE LET idx == tsk[k]
             original == canon[idx + 1]
             rewritten == res[k]
             diffs == diff_scene(original, rewritten)
         IN  MergeFrom(
                [updated |-> [st.updated EXCEPT ![idx + 1] = rewritten],
                 scenes_changed |->
                    IF diffs # << >>
                    THEN Append(st.scenes_changed,
                                [scene_index |-> idx + 1,
                                 scene_id    |-> original.scene_id,
                                 heading     |-> original.heading,
                                 diffs       |-> diffs])
                    ELSE st.scenes_changed],
                canon, tsk, res, k + 1)

\* the merge loop leaving at the first failed task (break for continue)
RECURSIVE MergeUntilFailure(_, _, _, _, _)
MergeUntilFailure(st, canon, tsk, res, k) ==
    IF k > Min(Len(tsk), Len(res)) \/ res[k] = Exception THEN st
    ELSE MergeUntilFailure(
            MergeFrom(st, canon, SubSeq(tsk, 1, k), SubSeq(res, 1, k), k),
            canon, tsk, res, k + 1)

MergeResultsUntilFailure(upd, canon, tsk, res) ==
    MergeUntilFailure([updated |-> upd, scenes_changed |-> << >>],
                      canon, tsk, res, 1)

\* the merge loop writing each result to the slot of its place in the task
\* list instead of the slot of its scene
RECURSIVE MergeByPlace(_, _, _, _)
MergeByPlace(st, tsk, res, k) ==
    IF k > Min(Len(tsk), Len(res)) THEN st
    ELSE IF res[k] = Exception THEN MergeByPlace(st, tsk, res, k + 1)
    ELSE MergeByPlace([st EXCEPT !.updated[k] = res[k]], tsk, res, k + 1)

MergeResultsByPlace(upd, canon, tsk, res) ==
    LET m == MergeFrom([updated |-> upd, scenes_changed |-> << >>],
                       canon, tsk, res, 1)
    IN  MergeByPlace([updated |-> upd, scenes_changed |-> m.scenes_changed],
                     tsk, res, 1)

MergeResults(upd, canon, tsk, res) ==
    MergeFrom([updated |-> upd, scenes_changed |-> << >>], canon, tsk, res, 1)

-----------------------------------------------------------------------------
(* A run of rewrite_fdx_with_plan                                          *)

Placements ==
    {"Act I", "Act II", "Act III", "Entire Screenplay", "Specific Scene"}

\* a cleaned change plan with the given placements
PlanOf(ps) ==
    [c \in 1..Len(ps) |->
        [change_id   |-> "C" \o ToString(c),
         description |-> "make it rain",
         placement   |-> ps[c]]]

ElementTypes == <<"Action", "Character", "Dialogue", "Parenthetical">>

\* the paragraphs of scene number k with e content paragraphs
SceneParas(k, e) ==
    << [Type |-> "Scene Heading", Text |-> "int. " \o ToString(k)] >>
    \o [m \in 1..e |->
          [Type |-> ElementTypes[((m - 1) % Len(ElementTypes)) + 1],
           Text |-> "he sits."]]

\* a document of n scenes, scene k with (k + r) % (MaxElems + 1) content
\* paragraphs: every count in 0..MaxElems occurs, at a place r shifts
RECURSIVE DocOf(_, _)
DocOf(n, r) ==
    IF n = 0 THEN << >>
    ELSE DocOf(n - 1, r) \o SceneParas(n, (n + r) % (MaxElems + 1))

NewText == "it rains."

\* the payloads the rewrite capability may answer a scene with
ItemsFor(el) == { <<el.text>>, <<NewText>>, << >> }

RECURSIVE ItemLists(_, _)
ItemLists(els, extra) ==
    IF els = << >> THEN SeqsUpTo({ <<NewText>>, << >> }, extra)
    ELSE { << >> } \cup
         { << x >> \o rest : x \in ItemsFor(Head(els)),
                              rest \in ItemLists(Tail(els), extra) }

Payloads(scene) ==
    { [kind |-> "raise"], [kind |-> "scalar"],
      [kind |-> "object", size |-> 0], [kind |-> "object", size |-> 1] }
    \cup { [kind |-> "list", items |-> l] : l \in ItemLists(scene.elements, 1) }

\* what rewrite_scene_with_gemini(scene, change_plan) may return or raise
Outcomes(scene) ==
    { rewrite_scene_with_gemini(scene, payload) : payload \in Payloads(scene) }

\* the change plans of the runs: none, one change of each placement, and
\* plans of two changes
PlacementLists ==
    { << >> } \cup { <<p>> : p \in Placements }
    \cup { <<"Act II", "Specific Scene">>, <<"Entire Screenplay", "Act I">>,
           <<"Act III", "Act III">> }

OptInts(n) == { << >> } \cup { <<k>> : k \in 0..(n + 1) }

Init ==
    /\ pc = "start"
    /\ \E n \in 0..MaxScenes, r \in 0..MaxElems :
          /\ doc = DocOf(n, r)
          /\ \E s \in OptInts(n), t \in OptInts(n) :
                /\ (s = << >>) <=> (t = << >>)
                /\ start_scene = s
                /\ end_scene = t
    /\ change_plan \in { PlanOf(ps) : ps \in PlacementLists }
    /\ canonical = << >>
    /\ updated = << >>
    /\ tasks = << >>
    /\ results = << >>
    /\ diff_report = << >>
    /\ fountain_text = ""
    /\ raw_plan = << >>
    /\ acts_rerun = << >>
    /\ overtaken = FALSE
    /\ payloads = {}
    /\ inflight = {}
    /\ hung = {}

\* rewrite_fdx_with_plan up to `await asyncio.gather(...)`, when tasks is
\* not empty
StartGather ==
    /\ pc = "start"
    /\ LET canon == assign_acts(parse_fdx_to_canonical(doc))
           tsk == CreateTasks(canon, change_plan, start_scene, end_scene)
       IN  /\ tsk # << >>
           /\ canonical' = canon
           /\ updated' = canon
           /\ tasks' = tsk
           /\ results' = [k \in 1..Len(tsk) |-> Pending]
    /\ pc' = "gather"
    /\ UNCHANGED <<doc, change_plan, start_scene, end_scene, diff_report,
                   fountain_text, raw_plan, acts_rerun, overtaken,
                   payloads, inflight, hung>>

\* rewrite_fdx_with_plan from start to return, when tasks is empty
RunWithoutTasks ==
    /\ pc = "start"
    /\ LET canon == assign_acts(parse_fdx_to_canonical(doc))
           tsk == CreateTasks(canon, change_plan, start_scene, end_scene)
       IN  /\ tsk = << >>
           /\ canonical' = canon
           /\ updated' = canon
           /\ fountain_text' = screenplay_to_fountain(canon)
    /\ pc' = "done"
    /\ UNCHANGED <<doc, change_plan, start_scene, end_scene, tasks, results,
                   diff_report, raw_plan, acts_rerun, overtaken,
                   payloads, inflight, hung>>

\* a task that rewrites the scene of the working screenplay itself, as it
\* would without the deepcopy of line 168
SettleInPlace(k) ==
    /\ pc = "gather"
    /\ results[k] = Pending
    /\ \E outcome \in Outcomes(updated[tasks[k] + 1]) :
          /\ results' = [results EXCEPT ![k] = outcome]
          /\ updated' = IF outcome = Exception THEN updated
                        ELSE [updated EXCEPT ![tasks[k] + 1] = outcome]
    /\ overtaken' = (overtaken \/ \E j \in 1..(k - 1) : results[j] = Pending)
    /\ UNCHANGED <<pc, doc, change_plan, start_scene, end_scene, canonical,
                   tasks, diff_report, fountain_text, raw_plan, acts_rerun,
                   payloads, inflight, hung>>

\* the coroutine of task k runs to its end: rewrite_scene_with_gemini
\* returns a scene (a deep copy of the one it was given) or raises, and
\* gather keeps the outcome at place k
Settle(k) ==
    /\ pc = "gather"
    /\ results[k] = Pending
    /\ \E outcome \in Outcomes(updated[tasks[k] + 1]) :
          results' = [results EXCEPT ![k] = outcome]
    /\ overtaken' = (overtaken \/ \E j \in 1..(k - 1) : results[j] = Pending)
    /\ UNCHANGED <<pc, doc, change_plan, start_scene, end_scene, canonical,
                   updated, tasks, diff_report, fountain_text, raw_plan,
                   acts_rerun,
                   payloads, inflight, hung>>

\* gather returns once every task has settled; the merge loop, the
\* serialization and the return
Merge ==
    /\ pc = "gather"
    /\ \A k \in 1..Len(tasks) : results[k] # Pending
    /\ LET m == MergeResults(updated, canonical, tasks, results)
       IN  /\ updated' = m.updated
           /\ diff_report' = m.scenes_changed
           /\ fountain_text' = screenplay_to_fountain(m.updated)
    /\ pc' = "done"
    /\ UNCHANGED <<doc, change_plan, start_scene, end_scene, canonical, tasks,
                   results, raw_plan, acts_rerun, overtaken,
                   payloads, inflight, hung>>

Next ==
    \/ StartGather
    \/ RunWithoutTasks
    \/ \E k \in 1..Len(tasks) : Settle(k)
    \/ Merge

Spec == Init /\ [][Next]_vars

-----------------------------------------------------------------------------
(* The batch with the answer of the rewrite capability kept: runs over one *)
(* or two scenes of up to MaxElems + 1 elements, all of them in the range  *)

\* every JSON value json.loads(response.text) may give: those of Payloads
\* and a JSON string
AllPayloads(scene) ==
    Payloads(scene) \cup { [kind |-> "string", text |-> t] : t \in {"", "it"} }

InitScene ==
    /\ pc = "start"
    /\ \E e \in 0..(MaxElems + 1), f \in 0..(MaxElems + 1) :
          doc \in { SceneParas(1, e), SceneParas(1, e) \o SceneParas(2, f) }
    /\ start_scene = <<1>>
    /\ end_scene = <<2>>
    /\ change_plan = PlanOf(<<"Entire Screenplay">>)
    /\ canonical = << >>
    /\ updated = << >>
    /\ tasks = << >>
    /\ results = << >>
    /\ diff_report = << >>
    /\ fountain_text = ""
    /\ raw_plan = << >>
    /\ acts_rerun = << >>
    /\ overtaken = FALSE
    /\ payloads = {}
    /\ inflight = {}
    /\ hung = {}

\* the coroutine of task k runs to its end on the answer `payload`
SettleWith(k) ==
    /\ pc = "gather"
    /\ results[k] = Pending
    /\ \E payload \in AllPayloads(updated[tasks[k] + 1]) :
          /\ results' = [results EXCEPT ![k] =
                            rewrite_scene_with_gemini(updated[tasks[k] + 1],
                                                      payload)]
          /\ payloads' = payloads \cup { <<k, payload>> }
    /\ overtaken' = (overtaken \/ \E j \in 1..(k - 1) : results[j] = Pending)
    /\ UNCHANGED <<pc, doc, change_plan, start_scene, end_scene, canonical,
                   updated, tasks, diff_report, fountain_text, raw_plan,
                   acts_rerun, inflight, hung>>

NextScene ==
    \/ StartGather
    \/ \E k \in 1..Len(tasks) : SettleWith(k)
    \/ Merge

SpecScene == InitScene /\ [][NextScene]_vars

-----------------------------------------------------------------------------
(* The batch with the calls to the rewrite capability in view.  Each task  *)
(* hands client.models.generate_content to asyncio.to_thread, that is to   *)
(* the default ThreadPoolExecutor of the event loop: the call is queued,   *)
(* and a worker thread takes it when one is free.                          *)

\* the worker threads of the default executor: min(32, os.cpu_count() + 4)
MaxWorkers == 2

\* an executor that starts a thread for every call
SlotAlwaysFree == TRUE

\* a worker thread is free to take a call from the queue
SlotFree == Cardinality(inflight) < MaxWorkers

\* task k waits for its call to be taken by a worker thread
Waiting(k) ==
    /\ pc = "gather"
    /\ k \in 1..Len(tasks)
    /\ results[k] = Pending
    /\ k \notin inflight

\* runs over every scene of the document: no range, and a plan that makes
\* every scene a candidate or none
PoolRuns ==
    /\ pc = "start"
    /\ \E n \in 0..MaxScenes, r \in 0..MaxElems : doc = DocOf(n, r)
    /\ start_scene = << >>
    /\ end_scene = << >>
    /\ change_plan \in { PlanOf(<< >>), PlanOf(<<"Act III">>) }
    /\ canonical = << >>
    /\ updated = << >>
    /\ tasks = << >>
    /\ results = << >>
    /\ diff_report = << >>
    /\ fountain_text = ""
    /\ raw_plan = << >>
    /\ acts_rerun = << >>
    /\ overtaken = FALSE
    /\ payloads = {}
    /\ inflight = {}

\* a worker thread takes the call of task k: the calls are queued in task
\* order and taken in that order
Dispatch(k) ==
    /\ Waiting(k)
    /\ \A j \in 1..(k - 1) : ~Waiting(j)
    /\ SlotFree
    /\ inflight' = inflight \cup {k}
    /\ UNCHANGED <<pc, doc, change_plan, start_scene, end_scene, canonical,
                   updated, tasks, results, diff_report, fountain_text,
                   raw_plan, acts_rerun, overtaken, payloads, hung>>

\* the call of task k gets its response (or an error), the thread is free
\* again and the coroutine runs to its end
Respond(k) ==
    /\ pc = "gather"
    /\ k \in inflight
    /\ k \notin hung
    /\ \E outcome \in Outcomes(updated[tasks[k] + 1]) :
          results' = [results EXCEPT ![k] = outcome]
    /\ inflight' = inflight \ {k}
    /\ overtaken' = (overtaken \/ \E j \in 1..(k - 1) : results[j] = Pending)
    /\ UNCHANGED <<pc, doc, change_plan, start_scene, end_scene, canonical,
                   updated, tasks, diff_report, fountain_text, raw_plan,
                   acts_rerun, payloads, hung>>

NextPool ==
    \/ StartGather
    \/ RunWithoutTasks
    \/ \E k \in 1..Len(tasks) : Dispatch(k)
    \/ \E k \in 1..Len(tasks) : Respond(k)
    \/ Merge

\* the steps of the calls of a batch
CallStep ==
    \/ \E k \in 1..Len(tasks) : Dispatch(k)
    \/ \E k \in 1..Len(tasks) : Respond(k)

\* every call gets a response; the event loop and the worker threads keep
\* running
InitPool == PoolRuns /\ hung = {}

SpecPool == InitPool /\ [][NextPool]_vars /\ WF_vars(CallStep)

\* the capability may leave any of the calls without a response for ever
InitHang == PoolRuns /\ hung \in SUBSET (1..MaxScenes)

SpecHang == InitHang /\ [][NextPool]_vars /\ WF_vars(CallStep)

-----------------------------------------------------------------------------
(* Notes -> change plan: the cleaning of notes_docx_to_change_plan         *)

\* JSON values: a string, null, a number (5), or any other value; a JSON
\* object is [kind |-> "object", fields |-> a function on its keys]
JStr(str) == [kind |-> "string", val |-> str]

JNull == [kind |-> "null"]

JNum == [kind |-> "number"]

IsStr(v) == v.kind = "string"

\* Python truth of a JSON value of the model
Falsy(v) == v.kind = "null" \/ (IsStr(v) /\ v.val = "")

\* change.get(key, "")
Get(obj, key) ==
    IF key \in DOMAIN obj.fields THEN obj.fields[key] ELSE JStr("")

\* normalize_placement(text) for a falsy or a string text
normalize_placement(text) ==
    IF Falsy(text) THEN "Entire Screenplay"
    ELSE LET t == Lower(text.val)
         IN  IF Contains("act i", t) THEN "Act I"
             ELSE IF Contains("act ii", t) THEN "Act II"
             ELSE IF Contains("act iii", t) THEN "Act III"
             ELSE IF Contains("entire", t) \/ Contains("whole", t)
                        \/ Contains("throughout", t)
             THEN "Entire Screenplay"
             ELSE IF Contains("scene", t) THEN "Specific Scene"
             ELSE "Entire Screenplay"

\* whether the body of the cleaning loop raises AttributeError for an entry:
\* change.get("description", "").strip() on a value that is no string, or
\* text.lower() in normalize_placement on a truthy value that is no string
EntryRaises(change) ==
    /\ change.kind = "object"
    /\ \/ ~IsStr(Get(change, "description"))
       \/ (~IsStr(Get(change, "placement")) /\ ~Falsy(Get(change, "placement")))

\* the cleaning loop from entry idx on (idx is 1-based, as enumerate(start=1))
RECURSIVE CleanFrom(_, _)
CleanFrom(changes, idx) ==
    IF idx > Len(changes) THEN << >>
    ELSE LET change == changes[idx]
         IN  (IF change.kind # "object" THEN << >>
              ELSE LET description == Strip(Get(change, "description").val)
                       placement == normalize_placement(Get(change, "placement"))
                   IN  IF description = "" THEN << >>
                       ELSE << [change_id   |-> "C" \o ToString(idx),
                                description |-> description,
                                placement   |-> placement] >>)
             \o CleanFrom(changes, idx + 1)

\* plan["scene_level_changes"] after line 145: [] when the key is missing
SceneLevelChanges(plan) ==
    IF "scene_level_changes" \in DOMAIN plan.fields
    THEN plan.fields["scene_level_changes"]
    ELSE [kind |-> "list", items |-> << >>]

\* how notes_docx_to_change_plan ends on json.loads(response.text) = plan:
\* "ValueError", "AttributeError" or "return"
PlanOutcome(plan) ==
    IF plan.kind # "object" THEN "ValueError"
    ELSE IF SceneLevelChanges(plan).kind # "list" THEN "ValueError"
    ELSE IF \E i \in 1..Len(SceneLevelChanges(plan).items) :
                EntryRaises(SceneLevelChanges(plan).items[i])
    THEN "AttributeError"
    ELSE "return"

\* the "scene_level_changes" of the plan notes_docx_to_change_plan returns
notes_docx_to_change_plan(plan) == CleanFrom(SceneLevelChanges(plan).items, 1)

MaxEntries == 2

Descriptions == { JStr("  "), JStr(" add rain "), JNull }

PlacementValues ==
    { JStr(p) : p \in Placements }
    \cup { JStr(""), JStr("the ending"), JStr("Throughout"), JNull, JNum }

EntryValues(key) ==
    IF key = "description" THEN Descriptions ELSE PlacementValues

\* the entries of scene_level_changes: a value that is no object, or an
\* object with any of the keys description and placement
Entries ==
    { [kind |-> "other"] }
    \cup { [kind |-> "object", fields |-> f] :
             f \in { g \in UNION { [ks -> Descriptions \cup PlacementValues] :
                                     ks \in SUBSET {"description", "placement"} } :
                       \A k \in DOMAIN g : g[k] \in EntryValues(k) } }

RawPlans ==
    { [kind |-> "invalid"], [kind |-> "other"],
      [kind |-> "object", fields |-> << >>],
      [kind |-> "object",
       fields |-> [k \in {"scene_level_changes"} |-> [kind |-> "other"]]] }
    \cup { [kind |-> "object",
            fields |-> [k \in {"scene_level_changes"} |->
                           [kind |-> "list", items |-> es]]] :
             es \in SeqsUpTo(Entries, MaxEntries) }

InitPlan ==
    /\ pc = "notes"
    /\ raw_plan \in RawPlans
    /\ change_plan = << >>
    /\ doc = << >>
    /\ start_scene = << >>
    /\ end_scene = << >>
    /\ canonical = << >>
    /\ updated = << >>
    /\ tasks = << >>
    /\ results = << >>
    /\ diff_report = << >>
    /\ fountain_text = ""
    /\ acts_rerun = << >>
    /\ overtaken = FALSE
    /\ payloads = {}
    /\ inflight = {}
    /\ hung = {}

\* notes_docx_to_change_plan returns the cleaned plan
NotesToPlan ==
    /\ pc = "notes"
    /\ raw_plan.kind # "invalid"
    /\ PlanOutcome(raw_plan) = "return"
    /\ change_plan' = notes_docx_to_change_plan(raw_plan)
    /\ pc' = "plan"
    /\ UNCHANGED <<doc, start_scene, end_scene, canonical, updated, tasks,
                   results, diff_report, fountain_text, raw_plan, acts_rerun,
                   overtaken,
                   payloads, inflight, hung>>

\* notes_docx_to_change_plan raises: ValueError for invalid JSON, for a plan
\* that is no object and for a scene_level_changes that is no list;
\* AttributeError from the cleaning loop
NotesToPlanRaises ==
    /\ pc = "notes"
    /\ \/ raw_plan.kind = "invalid" /\ pc' = "ValueError"
       \/ /\ raw_plan.kind # "invalid"
          /\ PlanOutcome(raw_plan) # "return"
          /\ pc' = PlanOutcome(raw_plan)
    /\ UNCHANGED <<doc, change_plan, start_scene, end_scene, canonical,
                   updated, tasks, results, diff_report, fountain_text,
                   raw_plan, acts_rerun, overtaken,
                   payloads, inflight, hung>>

NextPlan == NotesToPlan \/ NotesToPlanRaises

SpecPlan == InitPlan /\ [][NextPlan]_vars

-----------------------------------------------------------------------------
(* Properties of the parser and the act classifier (under SpecParse)       *)

\* the k-th smallest member of a set of positions
KthOf(P, k) == CHOOSE i \in P : Cardinality({ j \in P : j <= i }) = k

\* the members of a set of positions, ascending
Ascending(P) == [k \in 1..Cardinality(P) |-> KthOf(P, k)]

\* positions of the paragraphs that open a scene, and of those that are content
HeadingPositions(d) ==
    { i \in 1..Len(d) :
        Strip(d[i].Type) = "Scene Heading" /\ Strip(d[i].Text) # "" }

ContentPositions(d) ==
    { i \in 1..Len(d) :
        Strip(d[i].Type) # "Scene Heading" /\ Strip(d[i].Text) # "" }

\* content paragraphs whose nearest preceding scene-opening heading is at h
ContentOf(d, h) ==
    { i \in ContentPositions(d) :
        /\ h < i
        /\ \A g \in HeadingPositions(d) : ~(h < g /\ g < i) }

ExpectedIds == <<"S001", "S002", "S003", "S004", "S005", "S006", "S007", "S008">>

ParsedAsClaimed(d, scenes) ==
    LET H == HeadingPositions(d)
    IN  /\ Len(scenes) = Cardinality(H)
        /\ \A k \in 1..Len(scenes) :
              LET h == KthOf(H, k)
                  C == Ascending(ContentOf(d, h))
              IN  /\ scenes[k].scene_id = ExpectedIds[k]
                  /\ scenes[k].heading = Strip(d[h].Text)
                  /\ Len(scenes[k].elements) = Len(C)
                  /\ \A m \in 1..Len(C) :
                        /\ scenes[k].elements[m].type = Strip(d[C[m]].Type)
                        /\ scenes[k].elements[m].text = Strip(d[C[m]].Text)
        /\ (H = {} => scenes = << >>)

\* C10: parse_fdx_to_canonical yields exactly one scene per Scene Heading
\* paragraph with non-empty trimmed text, in document order, with ids S001,
\* S002, ... consecutive; every other non-empty paragraph is appended, in
\* order, to the scene opened by the nearest preceding such heading, those
\* before the first heading are dropped, and no heading gives no scene.
C10_ParseScenes ==
    pc = "parsed" => ParsedAsClaimed(doc, canonical)

\* a document with content before the first heading, two scenes, content in
\* the first and a paragraph of blank text has been parsed
C10_Witness ==
    /\ pc = "parsed"
    /\ Len(canonical) = 2
    /\ 1 \in ContentPositions(doc)
    /\ Len(canonical[1].elements) = 1
    /\ \E i \in 1..Len(doc) : Strip(doc[i].Text) = ""

\* C9: the act of the scene at 0-based index i among total scenes is Act I
\* iff 4i < total, Act II iff total <= 4i < 3 total, Act III iff
\* 4i >= 3 total, and a second assign_acts on the same list gives the same.
C9_ActBoundaries ==
    /\ pc \in {"acts", "acts2"} =>
          \A k \in 1..Len(canonical) :
              LET i == k - 1
                  total == Len(canonical)
                  act == canonical[k].act
              IN  /\ (act = "Act I") <=> (4 * i < total)
                  /\ (act = "Act II") <=> (total <= 4 * i /\ 4 * i < 3 * total)
                  /\ (act = "Act III") <=> (4 * i >= 3 * total)
    /\ pc = "acts2" =>
          acts_rerun = [k \in 1..Len(canonical) |-> canonical[k].act]

\* four scenes: index 1 is exactly at ratio 0.25, index 3 exactly at 0.75
C9_Witness ==
    /\ pc = "acts2"
    /\ Len(canonical) = 4
    /\ canonical[2].act = "Act II"
    /\ canonical[4].act = "Act III"

-----------------------------------------------------------------------------
(* Properties of a run of rewrite_fdx_with_plan (under Spec)               *)

Started == pc # "start"

Done == pc = "done"

\* the number of scenes of the document of the run
TotalScenes == Len(parse_fdx_to_canonical(doc))

\* 1-based positions of the scenes with an entry in scenes_changed
ChangedPositions == { diff_report[j].scene_index : j \in 1..Len(diff_report) }

\* 1-based positions of the scenes a rewrite task was created for
TaskPositions == { tasks[k] + 1 : k \in 1..Len(tasks) }

RangeGiven == start_scene # << >> /\ end_scene # << >>

ValidRange ==
    /\ RangeGiven
    /\ 1 <= start_scene[1]
    /\ start_scene[1] <= end_scene[1]
    /\ end_scene[1] <= TotalScenes

\* the element texts of two forms of a scene differ somewhere
TextChanged(a, b) ==
    \E m \in 1..Len(a.elements) : a.elements[m].text # b.elements[m].text

\* relevance of a change to a scene as the change scoper is specified
RelevantTo(change, scene) ==
    change.placement = "Entire Screenplay" \/ change.placement = scene.act

\* C1: for every scene and every change with one of the five normalized
\* placements, scene_needs_rewrite selects the scene because of the change
\* iff the placement is Entire Screenplay or equals the scene's act.
C1_RelevantIffEntireOrSameAct ==
    Started =>
        \A k \in 1..Len(canonical), c \in 1..Len(change_plan) :
            scene_needs_rewrite(canonical[k], << change_plan[c] >>)
                <=> RelevantTo(change_plan[c], canonical[k])

\* C2: when some tasks fail, the run returns with as many scenes as it
\* parsed; a failed candidate's scene is as parsed and has no diff entry; a
\* successful candidate whose text changed is replaced by its rewritten form
\* and has a diff entry.
C2_PartialFailure ==
    Done =>
          /\ Len(fountain_text) > 0
          /\ Len(updated) = Len(canonical)
          /\ \A k \in 1..Len(tasks) :
                LET pos == tasks[k] + 1
                IN  /\ results[k] = Exception =>
                          /\ updated[pos] = canonical[pos]
                          /\ pos \notin ChangedPositions
                    /\ (results[k] # Exception
                            /\ TextChanged(canonical[pos], results[k])) =>
                          /\ updated[pos] = results[k]
                          /\ updated[pos] # canonical[pos]
                          /\ pos \in ChangedPositions

\* a run has returned in which a task failed before a later task succeeded
\* with changed text
C2_Witness ==
    /\ Done
    /\ \E j, k \in 1..Len(tasks) :
          /\ j < k
          /\ results[j] = Exception
          /\ results[k] # Exception
          /\ TextChanged(canonical[tasks[k] + 1], results[k])

\* C3: with an invalid scene range the run fails with ScopeError, creates no
\* rewrite task and returns no result.
C3_InvalidRangeIsScopeError ==
    (Started /\ RangeGiven /\ ~ValidRange) =>
        (pc = "ScopeError" /\ tasks = << >>)

\* C4: without a range, a scene to which no change of the plan is relevant
\* gets no rewrite task, stays as parsed and has no diff entry.
C4_IrrelevantSceneUntouched ==
    (Started /\ start_scene = << >> /\ end_scene = << >>) =>
        \A pos \in 1..Len(canonical) :
            (\A c \in 1..Len(change_plan) :
                    ~RelevantTo(change_plan[c], canonical[pos])) =>
                /\ pos \notin TaskPositions
                /\ updated[pos] = canonical[pos]
                /\ pos \notin ChangedPositions

\* C5: with a valid range [start_scene, end_scene] the scenes given a rewrite
\* task are exactly those at positions start_scene..end_scene, whatever their
\* act and the plan; every scene outside stays as parsed, with no diff entry.
C5_RangeSelectsExactly ==
    (Started /\ ValidRange) =>
        /\ TaskPositions = start_scene[1]..end_scene[1]
        /\ Len(tasks) = end_scene[1] - start_scene[1] + 1
        /\ \A pos \in 1..Len(canonical) :
              pos \notin start_scene[1]..end_scene[1] =>
                  /\ updated[pos] = canonical[pos]
                  /\ pos \notin ChangedPositions

\* a run over a proper sub-range has returned, with an empty plan, and a
\* scene of the range was rewritten
C5_Witness ==
    /\ Done
    /\ ValidRange
    /\ 1 < start_scene[1]
    /\ start_scene[1] < end_scene[1]
    /\ end_scene[1] < TotalScenes
    /\ change_plan = << >>
    /\ start_scene[1] \in ChangedPositions

\* C6: after any run, a scene with no entry in scenes_changed is in the
\* output exactly as parsed (id, heading, act, element types and texts).
C6_AbsentFromDiffIsIdentical ==
    Done =>
        \A pos \in 1..Len(canonical) :
            pos \notin ChangedPositions =>
                /\ pos <= Len(updated)
                /\ updated[pos] = canonical[pos]

\* a run has returned where one task failed, one returned the texts
\* unchanged and one changed them
C6_Witness ==
    /\ Done
    /\ \E i, j, k \in 1..Len(tasks) :
          /\ results[i] = Exception
          /\ results[j] # Exception
          /\ Len(results[j].elements) > 0
          /\ ~TextChanged(canonical[tasks[j] + 1], results[j])
          /\ tasks[j] + 1 \notin ChangedPositions
          /\ tasks[k] + 1 \in ChangedPositions

\* C7: whatever the order in which the tasks settle, the scenes keep their
\* ids and headings at their positions; a result is the scene of its own
\* task and is written to that scene's slot only; no two tasks share a slot;
\* scenes_changed is in ascending scene order.
C7_OrderIsDocumentOrder ==
    Started =>
        /\ LET parsed == parse_fdx_to_canonical(doc)
           IN  /\ Len(updated) = Len(parsed)
               /\ \A pos \in 1..Len(updated) :
                     /\ updated[pos].scene_id = parsed[pos].scene_id
                     /\ updated[pos].heading = parsed[pos].heading
        /\ \A j, k \in 1..Len(tasks) : j # k => tasks[j] # tasks[k]
        /\ \A k \in 1..Len(results) :
              results[k] \notin {Pending, Exception} =>
                  /\ results[k].scene_id = canonical[tasks[k] + 1].scene_id
                  /\ Done => updated[tasks[k] + 1] = results[k]
        /\ \A i, j \in 1..Len(diff_report) :
              i < j => diff_report[i].scene_index < diff_report[j].scene_index
        /\ \A j \in 1..Len(diff_report) :
              diff_report[j].scene_id = canonical[diff_report[j].scene_index].scene_id

\* a run has returned in which a task settled before an earlier one and at
\* least two scenes changed
C7_Witness ==
    /\ Done
    /\ overtaken
    /\ Len(diff_report) >= 2
    /\ Len(tasks) < Len(canonical)

\* C12: barrier merge. While rewrite_fdx_with_plan waits in gather, with
\* tasks outstanding or all of them settled, no scene slot of the working
\* screenplay and no scenes_changed entry has been written: updated equals
\* the parsed screenplay and the diff report is empty; the writes all
\* happen in the merge loop after gather.
C12_BarrierMerge ==
    pc = "gather" =>
        /\ updated = canonical
        /\ diff_report = << >>
        /\ fountain_text = ""

\* a batch in which one task has returned a rewritten scene while another
\* is still outstanding
C12_Witness ==
    /\ pc = "gather"
    /\ \E k \in 1..Len(tasks), j \in 1..Len(tasks) :
          /\ results[j] = Pending
          /\ results[k] \notin {Pending, Exception}
          /\ results[k].elements # canonical[tasks[k] + 1].elements

-----------------------------------------------------------------------------
(* Properties of the answers of the rewrite capability (under SpecScene)   *)

\* the payload has the shape of the scene: a list of as many strings as the
\* scene has elements
HasSceneShape(payload, scene) ==
    /\ payload.kind = "list"
    /\ Len(payload.items) = Len(scene.elements)
    /\ \A i \in 1..Len(payload.items) : payload.items[i] # << >>

\* a JSON value was returned, and it has not the shape of the scene
IllShaped(payload, scene) ==
    /\ payload.kind \in {"list", "scalar", "object", "string"}
    /\ ~HasSceneShape(payload, scene)

\* C11: a task whose payload has not the shape of its scene (a list of
\* another length, a list with a non-string item, a JSON value that is no
\* list) is a failed one: no element text of its result differs from the
\* scene it was given, and once the run has returned the scene is the
\* parsed one and has no entry in scenes_changed.
C11_IllShapedPayloadFails ==
    \A kp \in payloads :
        LET k == kp[1]
            pos == tasks[k] + 1
        IN  IllShaped(kp[2], canonical[pos]) =>
              /\ \/ results[k] = Exception
                 \/ results[k].elements = canonical[pos].elements
              /\ Done => /\ updated[pos] = canonical[pos]
                         /\ pos \notin ChangedPositions

-----------------------------------------------------------------------------
(* Properties of the calls of a batch (under SpecHang and SpecPool)        *)

\* gather has every result: the merge loop can run
AllSettled == \A k \in 1..Len(tasks) : results[k] # Pending

\* C13: every rewrite task carries a timeout. A run never comes to rest
\* before rewrite_fdx_with_plan has returned, whichever calls the capability
\* leaves without a response, and in the returned run each task of such a
\* call has settled as a failure.
C13_HungCallTimesOut ==
    /\ pc = "gather" => AllSettled \/ ENABLED CallStep
    /\ Done => \A k \in hung \cap (1..Len(tasks)) : results[k] = Exception

-----------------------------------------------------------------------------
(* Properties of the change-plan cleaning (under SpecPlan)                 *)

IsObject(v) == v.kind = "object"

HasChangesKey(plan) == "scene_level_changes" \in DOMAIN plan.fields

\* an entry that is an object with a non-blank string description and a
\* non-empty string placement
WellFormedEntry(e) ==
    /\ IsObject(e)
    /\ {"description", "placement"} \subseteq DOMAIN e.fields
    /\ IsStr(e.fields["description"])
    /\ Strip(e.fields["description"].val) # ""
    /\ IsStr(e.fields["placement"])
    /\ e.fields["placement"].val # ""

\* C8: a plan object without the scene_level_changes key, or whose value
\* there is no sequence, is rejected with a fatal error; a malformed entry
\* of the sequence is skipped and never makes the run fail.
C8_PlanSchema ==
    (pc # "notes" /\ IsObject(raw_plan)) =>
        /\ ~HasChangesKey(raw_plan) => pc \in {"ValueError", "AttributeError"}
        /\ (HasChangesKey(raw_plan)
                /\ raw_plan.fields["scene_level_changes"].kind # "list")
              => pc \in {"ValueError", "AttributeError"}
        /\ (HasChangesKey(raw_plan)
                /\ raw_plan.fields["scene_level_changes"].kind = "list")
              => /\ pc = "plan"
                 /\ Len(change_plan) =
                        Cardinality(
                            { i \in 1..Len(raw_plan.fields["scene_level_changes"].items) :
                                WellFormedEntry(
                                    raw_plan.fields["scene_level_changes"].items[i]) })

\* the entry of the raw plan a cleaned change was made from
RawEntryOf(change) ==
    LET items == SceneLevelChanges(raw_plan).items
    IN  items[CHOOSE i \in 1..Len(items) :
                  "C" \o ToString(i) = change.change_id]

\* no rule of normalize_placement matches the text
Unmatched(text) ==
    \A word \in {"act i", "act ii", "act iii", "entire", "whole",
                  "throughout", "scene"} : ~Contains(word, Lower(text))

\* C15: every placement of the returned change plan is one of the five
\* canonical strings; it is 'Entire Screenplay' when the raw placement is
\* empty, missing or matched by no rule, and it is the raw placement itself
\* when that is one of the five canonical strings.
C15_PlacementNormalized ==
    pc = "plan" =>
        \A j \in 1..Len(change_plan) :
            LET given == Get(RawEntryOf(change_plan[j]), "placement")
                placement == change_plan[j].placement
            IN  /\ placement \in Placements
                /\ placement = normalize_placement(given)
                /\ Falsy(given) => placement = "Entire Screenplay"
                /\ (IsStr(given) /\ Unmatched(given.val))
                      => placement = "Entire Screenplay"
                /\ (IsStr(given) /\ given.val \in Placements)
                      => placement = given.val

====
